---------------------------- MODULE Spec2Model ----------------------------
(***************************************************************************)
(* A model of the number-to-words utilities of efa_word_generator.py       *)
(* (number_to_words, price_to_words) and of its console reader             *)
(* get_multiline_input.                                                    *)
(*                                                                         *)
(* Python values are modelled as follows.                                  *)
(*  - str: a TLA+ string; + is \o.                                         *)
(*  - the outcome of a call: a record [exc, val]; exc = "" for a normal    *)
(*    return of val, otherwise the name of the exception that propagated.  *)
(*  - int: a TLA+ integer (the model stays within 32 bits).                *)
(*  - float price: the decimal amount typed by the user, as a record       *)
(*    [neg, whole, milli, tie]: sign, integer part, thousandths, and the   *)
(*    side on which the binary double falls when the thousandths end in 5. *)
(***************************************************************************)
EXTENDS Integers, Sequences, FiniteSets, TLC

VARIABLES
    fn,       \* the function under call
    num,      \* number_to_words: the argument num
    price,    \* price_to_words: the argument price
    units,    \* price_to_words: further positional arguments of the call
    stdin,    \* get_multiline_input: the lines the console will deliver
    pos,      \* get_multiline_input: how many of them input() has returned
    lines,    \* get_multiline_input: the local list lines
    pc,       \* "call" before the call (or inside the loop), "done" after
    result    \* the outcome of the call

vars == <<fn, num, price, units, stdin, pos, lines, pc, result>>

---------------------------------------------------------------------------
(* Outcomes and Python list subscription *)

Ret(s) == [exc |-> "", val |-> s]

Raise(e) == [exc |-> e, val |-> ""]

\* the value of result before the call has ended
NoResult == [exc |-> "", val |-> "None"]

\* a + b on two outcomes: the left operand is evaluated first
Cat(a, b) ==
    IF a.exc # "" THEN a
    ELSE IF b.exc # "" THEN b
    ELSE Ret(a.val \o b.val)

\* A subscription that wraps every index into the list (no IndexError).
IndexWrapping(list, i) == Ret(list[(i % Len(list)) + 1])

\* list[i]: indices -len..-1 count from the end, others raise IndexError
Index(list, i) ==
    IF 0 <= i /\ i < Len(list) THEN Ret(list[i + 1])
    ELSE IF -Len(list) <= i /\ i < 0 THEN Ret(list[Len(list) + i + 1])
    ELSE Raise("IndexError")

---------------------------------------------------------------------------
(* number_to_words *)

ones == <<"", "One", "Two", "Three", "Four", "Five", "Six", "Seven",
          "Eight", "Nine">>

tens == <<"", "", "Twenty", "Thirty", "Forty", "Fifty", "Sixty", "Seventy",
          "Eighty", "Ninety">>

teens == <<"Ten", "Eleven", "Twelve", "Thirteen", "Fourteen", "Fifteen",
           "Sixteen", "Seventeen", "Eighteen", "Nineteen">>

\* The tens branch without the test of the ones digit.
TensWordsAlwaysOnes(n) ==
    Cat(Index(tens, n \div 10), Cat(Ret(" "), Index(ones, n % 10)))

\* tens[n // 10] + (' ' + ones[n % 10] if n % 10 != 0 else '')
TensWords(n) ==
    Cat(Index(tens, n \div 10),
        IF n % 10 # 0 THEN Cat(Ret(" "), Index(ones, n % 10)) ELSE Ret(""))

RECURSIVE convert_below_thousand(_)
convert_below_thousand(n) ==
    IF n = 0 THEN Ret("")
    ELSE IF n < 10 THEN Index(ones, n)
    ELSE IF n < 20 THEN Index(teens, n - 10)
    ELSE IF n < 100 THEN TensWords(n)
    ELSE Cat(Cat(Index(ones, n \div 100), Ret(" Hundred")),
             IF n % 100 # 0
             THEN Cat(Ret(" and "), convert_below_thousand(n % 100))
             ELSE Ret(""))

\* The thousands branch appending the remainder without testing it.
ThousandsWordsNoTest(n) ==
    Cat(Cat(convert_below_thousand(n \div 1000), Ret(" Thousand")),
        Cat(Ret(" "), convert_below_thousand(n % 1000)))

\* the branch num < 1000000
ThousandsWords(n) ==
    LET thousands == n \div 1000
        remainder == n % 1000
        head == Cat(convert_below_thousand(thousands), Ret(" Thousand"))
    IN  IF remainder > 0
        THEN Cat(head, Cat(Ret(" "), convert_below_thousand(remainder)))
        ELSE head

\* The millions branch naming the thousands of the remainder even when
\* the remainder is below 1000.
MillionsWordsAlwaysThousand(n) ==
    LET millions == n \div 1000000
        remainder == n % 1000000
        head == Cat(convert_below_thousand(millions), Ret(" Million"))
        thou == Cat(head, Cat(Ret(" "),
                    Cat(convert_below_thousand(remainder \div 1000),
                        Ret(" Thousand"))))
    IN  IF remainder > 0
        THEN IF remainder % 1000 > 0
             THEN Cat(thou, Cat(Ret(" "),
                                convert_below_thousand(remainder % 1000)))
             ELSE thou
        ELSE head

\* the branch num >= 1000000
MillionsWords(n) ==
    LET millions == n \div 1000000
        remainder == n % 1000000
        head == Cat(convert_below_thousand(millions), Ret(" Million"))
        thou == Cat(head, Cat(Ret(" "),
                    Cat(convert_below_thousand(remainder \div 1000),
                        Ret(" Thousand"))))
    IN  IF remainder > 0
        THEN IF remainder >= 1000
             THEN IF remainder % 1000 > 0
                  THEN Cat(thou, Cat(Ret(" "),
                                     convert_below_thousand(remainder % 1000)))
                  ELSE thou
             ELSE Cat(head, Cat(Ret(" "), convert_below_thousand(remainder)))
        ELSE head

number_to_words(n) ==
    IF n = 0 THEN Ret("Zero")
    ELSE IF n < 1000 THEN convert_below_thousand(n)
    ELSE IF n < 1000000 THEN ThousandsWords(n)
    ELSE MillionsWords(n)

---------------------------------------------------------------------------
(* price_to_words *)

\* int(price): truncation toward zero
IntOf(p) == IF p.neg THEN -p.whole ELSE p.whole

\* Rounding that never reaches the next whole unit.
RoundPenceCapped(p) ==
    LET q == p.milli \div 10
        r == p.milli % 10
        up == IF r > 5 \/ (r = 5 /\ p.tie = "up") THEN q + 1 ELSE q
        m == IF up > 99 THEN 99 ELSE up
    IN  IF p.neg THEN -m ELSE m

\* Rounding that truncates the thousandths.
RoundPenceTruncating(p) ==
    IF p.neg THEN -(p.milli \div 10) ELSE p.milli \div 10

\* round((price - pounds) * 100): to the nearest integer; where the
\* thousandths digit is 5 the double's side of the tie decides
RoundPence(p) ==
    LET q == p.milli \div 10
        r == p.milli % 10
        m == IF r > 5 \/ (r = 5 /\ p.tie = "up") THEN q + 1 ELSE q
    IN  IF p.neg THEN -m ELSE m

\* The clause test as pence >= 0.
PenceClauseAlways(pence) ==
    Cat(Ret(" and "), Cat(number_to_words(pence), Ret(" Pence")))

\* the text appended for the pence: nothing unless pence > 0
PenceClause(pence) ==
    IF pence > 0
    THEN Cat(Ret(" and "), Cat(number_to_words(pence), Ret(" Pence")))
    ELSE Ret("")

price_to_words(p) ==
    LET pounds == IntOf(p)
        pence == RoundPence(p)
    IN  Cat(Cat(number_to_words(pounds), Ret(" Pounds")), PenceClause(pence))

\* A call that ignores arguments it has no parameter for.
CallPriceIgnoringExtra(p, extra) == price_to_words(p)

\* price_to_words(price, *extra): the function has the one parameter price
CallPrice(p, extra) ==
    IF Len(extra) # 0 THEN Raise("TypeError") ELSE price_to_words(p)

---------------------------------------------------------------------------
(* get_multiline_input *)

RECURSIVE Join(_)
\* "\n".join(ls)
Join(ls) ==
    IF Len(ls) = 0 THEN ""
    ELSE IF Len(ls) = 1 THEN ls[1]
    ELSE ls[1] \o "\n" \o Join(Tail(ls))

\* The loop test without the guard on the previous line.
BreaksOnAnyEmpty(ls, line) == line = ""

\* line == "" and lines and lines[-1] == ""
Breaks(ls, line) == line = "" /\ Len(ls) > 0 /\ ls[Len(ls)] = ""

---------------------------------------------------------------------------
(* The inputs of the calls *)

\* how far around each tier boundary the sampled three-digit groups reach
Spread == 1

\* the negative arguments tried: -MaxNeg..-1
MaxNeg == 12

\* the longest console input tried, in lines
MaxLines == 5

Group == 0..999

Tiers == {0, 10, 20, 100, 999}

Corner == {0, 1, 999}

Sample == {g \in Group : \E b \in Tiers : g - b <= Spread /\ b - g <= Spread}

Compose(ms, ts, us) ==
    {m * 1000000 + t * 1000 + u : m \in ms, t \in ts, u \in us}

BelowMillion == Compose({0}, Sample, Group) \cup Compose({0}, Group, Sample)

FromMillion ==
    Compose(Sample \ {0}, Sample, Sample)
        \cup Compose(Group \ {0}, Corner, Corner)
        \cup Compose(Corner \ {0}, Group, Corner)
        \cup Compose(Corner \ {0}, Corner, Group)
        \cup {2500000, 1234567, 999999999}

FromBillion ==
    {1000000000 + n : n \in Compose(Sample, Sample, Sample)}
        \cup {2000000000 + n : n \in Compose({0, 1, 100}, Corner, Corner)}
        \cup {2147483647}

Negative == (-MaxNeg)..(-1)

Nums == Negative \cup BelowMillion \cup FromMillion \cup FromBillion

Wholes == Sample \cup {5, 1000, 1001, 1234, 999999, 1000000, 2500000, 1000000000}

Ties(milli) == IF milli % 10 = 5 THEN {"down", "up"} ELSE {"down"}

\* the amounts tried: every thousandth of each sampled whole, and of each
\* negative whole down to -MaxNeg
IsPrice(p) ==
    /\ p.whole \in (IF p.neg THEN 0..MaxNeg ELSE Wholes)
    /\ p.tie \in Ties(p.milli)
    /\ (p.neg => p.whole + p.milli > 0)

UnitPairs == {<<"Dollars", "Cents">>, <<"Pounds", "Pence">>}

Lines == {"", " ", "a"}

RECURSIVE SeqsUpTo(_)
SeqsUpTo(n) ==
    IF n = 0 THEN {<<>>}
    ELSE LET shorter == SeqsUpTo(n - 1)
         IN  shorter \cup {Append(s, l) : s \in {x \in shorter : Len(x) = n - 1},
                                           l \in Lines}

NoPrice == [neg |-> FALSE, whole |-> 0, milli |-> 0, tie |-> "down"]

---------------------------------------------------------------------------
(* The calls *)

InitWords ==
    /\ fn = "number_to_words"
    /\ num \in Nums
    /\ price = NoPrice /\ units = <<>>
    /\ stdin = <<>> /\ pos = 0 /\ lines = <<>>
    /\ pc = "call" /\ result = NoResult

InitPrice ==
    /\ fn = "price_to_words"
    /\ \E n \in BOOLEAN, w \in Wholes \cup (0..MaxNeg), f \in Group,
          t \in {"down", "up"} :
            /\ price = [neg |-> n, whole |-> w, milli |-> f, tie |-> t]
            /\ IsPrice(price)
    /\ units \in {<<>>} \cup {u \in UnitPairs : price.milli % 100 \in {0, 96}}
    /\ num = 0
    /\ stdin = <<>> /\ pos = 0 /\ lines = <<>>
    /\ pc = "call" /\ result = NoResult

InitInput ==
    /\ fn = "get_multiline_input"
    /\ stdin \in SeqsUpTo(MaxLines)
    /\ pos = 0 /\ lines = <<>>
    /\ num = 0 /\ price = NoPrice /\ units = <<>>
    /\ pc = "call" /\ result = NoResult

Init == InitWords \/ InitPrice \/ InitInput

\* number_to_words(num)
NumberToWords ==
    /\ fn = "number_to_words" /\ pc = "call"
    /\ result' = number_to_words(num)
    /\ pc' = "done"
    /\ UNCHANGED <<fn, num, price, units, stdin, pos, lines>>

\* price_to_words(price, *units)
PriceToWords ==
    /\ fn = "price_to_words" /\ pc = "call"
    /\ result' = CallPrice(price, units)
    /\ pc' = "done"
    /\ UNCHANGED <<fn, num, price, units, stdin, pos, lines>>

\* one pass of the loop in which input() returns a line that is kept
ReadAppend ==
    /\ fn = "get_multiline_input" /\ pc = "call"
    /\ pos < Len(stdin)
    /\ ~Breaks(lines, stdin[pos + 1])
    /\ pos' = pos + 1
    /\ lines' = Append(lines, stdin[pos + 1])
    /\ UNCHANGED <<fn, num, price, units, stdin, pc, result>>

\* the pass in which the loop ends: lines.pop(), break, return the join
ReadBreak ==
    /\ fn = "get_multiline_input" /\ pc = "call"
    /\ pos < Len(stdin)
    /\ Breaks(lines, stdin[pos + 1])
    /\ pos' = pos + 1
    /\ lines' = SubSeq(lines, 1, Len(lines) - 1)
    /\ result' = Ret(Join(lines'))
    /\ pc' = "done"
    /\ UNCHANGED <<fn, num, price, units, stdin>>

\* input() at the end of the console input raises EOFError
ReadEOF ==
    /\ fn = "get_multiline_input" /\ pc = "call"
    /\ pos = Len(stdin)
    /\ result' = Raise("EOFError")
    /\ pc' = "done"
    /\ UNCHANGED <<fn, num, price, units, stdin, pos, lines>>

Next == NumberToWords \/ PriceToWords \/ ReadAppend \/ ReadBreak \/ ReadEOF

Spec == Init /\ [][Next]_vars

---------------------------------------------------------------------------
(* Vocabulary of the properties *)

Called(f) == fn = f /\ pc = "done"

Returned == result.exc = ""

Raised == result.exc # "" /\ result.val = ""

Char(s, i) == SubSeq(s, i, i)

StartsWith(s, pre) == Len(s) >= Len(pre) /\ SubSeq(s, 1, Len(pre)) = pre

EndsWith(s, suf) ==
    Len(s) >= Len(suf) /\ SubSeq(s, Len(s) - Len(suf) + 1, Len(s)) = suf

Whitespace == {" ", "\n", "\t"}

\* non-empty, no whitespace at either end, no two spaces in a row
WellSpaced(s) ==
    /\ Len(s) > 0
    /\ Char(s, 1) \notin Whitespace
    /\ Char(s, Len(s)) \notin Whitespace
    /\ \A i \in 1..(Len(s) - 1) : SubSeq(s, i, i + 1) # "  "

\* the number names as the specification lists them
RefSmall == <<"One", "Two", "Three", "Four", "Five", "Six", "Seven", "Eight",
              "Nine", "Ten", "Eleven", "Twelve", "Thirteen", "Fourteen",
              "Fifteen", "Sixteen", "Seventeen", "Eighteen", "Nineteen">>

RefTens == <<"Twenty", "Thirty", "Forty", "Fifty", "Sixty", "Seventy",
             "Eighty", "Ninety">>

\* the tiered reference for 0 <= n < 1,000,000
RECURSIVE RefWords(_)
RefWords(n) ==
    IF n = 0 THEN "Zero"
    ELSE IF n < 20 THEN RefSmall[n]
    ELSE IF n < 100
         THEN RefTens[(n \div 10) - 1]
              \o (IF n % 10 # 0 THEN " " \o RefSmall[n % 10] ELSE "")
    ELSE IF n < 1000
         THEN RefSmall[n \div 100] \o " Hundred"
              \o (IF n % 100 # 0 THEN " and " \o RefWords(n % 100) ELSE "")
    ELSE RefWords(n \div 1000) \o " Thousand"
         \o (IF n % 1000 # 0 THEN " " \o RefWords(n % 1000) ELSE "")

\* the reference for 1,000,000 <= n < 1,000,000,000
RefMillions(n) ==
    LET r == n % 1000000
    IN  RefWords(n \div 1000000) \o " Million"
        \o (IF r = 0 THEN ""
            ELSE IF r >= 1000
                 THEN " " \o RefWords(r \div 1000) \o " Thousand"
                      \o (IF r % 1000 > 0 THEN " " \o RefWords(r % 1000)
                          ELSE "")
            ELSE " " \o RefWords(r))

\* a phrase of w whole units and k minor units, named major and minor
RefPhrase(w, k, major, minor) ==
    number_to_words(w).val \o " " \o major
        \o (IF k > 0 THEN " and " \o number_to_words(k).val \o " " \o minor
            ELSE "")

\* the index of the first of the first two adjacent empty lines, 0 if none
FirstPair(ls) ==
    LET at == {i \in 1..(Len(ls) - 1) : ls[i] = "" /\ ls[i + 1] = ""}
    IN  IF at = {} THEN 0
        ELSE CHOOSE i \in at : \A j \in at : i <= j

NoAdjacentEmpty(ls) ==
    \A i \in 1..(Len(ls) - 1) : ~(ls[i] = "" /\ ls[i + 1] = "")

---------------------------------------------------------------------------
(* The properties *)

\* C1: for every non-negative amount price_to_words renders no Pence value
\* of 100 or more: the phrase is that of the whole part, or of the whole
\* part plus one when the rounding carries, with a Pence clause that is
\* absent or names a value in 1..99.
C1_NoPenceOverflow ==
    (Called("price_to_words") /\ units = <<>> /\ ~price.neg /\ Returned)
        => \E w \in {price.whole, price.whole + 1}, k \in 0..99 :
              /\ number_to_words(w).exc = ""
              /\ result.val = RefPhrase(w, k, "Pounds", "Pence")

\* C2: a negative argument makes number_to_words fail with an error, and a
\* negative amount makes price_to_words fail with an error; neither returns
\* a string.
C2_NegativeRaises ==
    /\ (Called("number_to_words") /\ num < 0) => Raised
    /\ (Called("price_to_words") /\ units = <<>> /\ price.neg) => Raised

\* C3: for 0 <= num < 1,000,000 the string number_to_words returns is
\* non-empty, has no whitespace at either end and no two consecutive
\* spaces, and each three-digit group joined into it has non-empty words.
C3_WellSpaced ==
    (Called("number_to_words") /\ 0 <= num /\ num < 1000000)
        => /\ Returned
           /\ WellSpaced(result.val)
           /\ \A g \in {num \div 1000, num % 1000} \ {0} :
                 LET part == convert_below_thousand(g)
                 IN  part.exc = "" /\ WellSpaced(part.val)

C3_Witness ==
    /\ Called("number_to_words") /\ num = 21120
    /\ result = Ret("Twenty One Thousand One Hundred and Twenty")

\* C4: for 0 <= num < 1,000,000 number_to_words returns the words of the
\* tiered reference; 1234 gives "One Thousand Two Hundred and Thirty Four"
\* and 1001 gives "One Thousand One".
C4_TieredReference ==
    (Called("number_to_words") /\ 0 <= num /\ num < 1000000)
        => /\ result = Ret(RefWords(num))
           /\ num = 1234
                => result.val = "One Thousand Two Hundred and Thirty Four"
           /\ num = 1001 => result.val = "One Thousand One"
           /\ num = 0 => result.val = "Zero"
           /\ num = 15 => result.val = "Fifteen"
           /\ num = 42 => result.val = "Forty Two"
           /\ num = 100 => result.val = "One Hundred"
           /\ num = 101 => result.val = "One Hundred and One"

C4_Witness ==
    /\ Called("number_to_words") /\ num = 1234
    /\ result = Ret("One Thousand Two Hundred and Thirty Four")

\* C5: for 1,000,000 <= num < 1,000,000,000 number_to_words returns the
\* words of num div 1,000,000, " Million", and then the thousands and the
\* units of the remainder as the reference splits them: nothing for a
\* remainder of 0, no " Thousand" for a remainder below 1000.
C5_Millions ==
    (Called("number_to_words") /\ 1000000 <= num /\ num < 1000000000)
        => /\ result = Ret(RefMillions(num))
           /\ num = 1000000 => result.val = "One Million"
           /\ num = 2500000
                => result.val = "Two Million Five Hundred Thousand"
           /\ num = 1000001 => result.val = "One Million One"

C5_Witness ==
    /\ Called("number_to_words") /\ num = 2500000
    /\ result = Ret("Two Million Five Hundred Thousand")

\* C6: for a non-negative amount whole + f/100 with 0 <= f <= 99,
\* price_to_words returns the words of whole and " Pounds", followed by
\* " and ", the words of f and " Pence" exactly when f > 0; where
\* number_to_words fails for whole, price_to_words fails in the same way.
C6_PoundsAndPence ==
    (Called("price_to_words") /\ units = <<>> /\ ~price.neg
        /\ price.milli % 10 = 0)
        => LET f == price.milli \div 10
               whole == number_to_words(price.whole)
           IN  /\ whole.exc # "" => result = whole
               /\ whole.exc = ""
                    => /\ result = Ret(RefPhrase(price.whole, f,
                                                 "Pounds", "Pence"))
                       /\ EndsWith(result.val, " Pence") <=> f > 0
                       /\ f = 0 => result.val = whole.val \o " Pounds"
               /\ (price.whole = 5 /\ f = 0) => result.val = "Five Pounds"
               /\ (price.whole = 1234 /\ f = 50)
                    => result.val = "One Thousand Two Hundred and Thirty "
                                    \o "Four Pounds and Fifty Pence"

C6_Witness ==
    /\ Called("price_to_words") /\ units = <<>>
    /\ price = [neg |-> FALSE, whole |-> 0, milli |-> 990, tie |-> "down"]
    /\ result = Ret("Zero Pounds and Ninety Nine Pence")

\* C7: for num >= 1,000,000,000 number_to_words fails with an error and
\* returns no string, so no part of num is dropped or misnamed.
C7_BillionFails ==
    (Called("number_to_words") /\ num >= 1000000000) => Raised

C7_Witness ==
    /\ Called("number_to_words") /\ num = 1000000000
    /\ result = Raise("IndexError")

\* C8 as stated: price_to_words takes the major and minor unit names and
\* the phrase uses the names supplied, "Pounds" and "Pence" by default.
C8_UnitNamesAccepted ==
    (Called("price_to_words") /\ ~price.neg /\ price.whole < 1000000000)
        => LET major == IF units = <<>> THEN "Pounds" ELSE units[1]
               minor == IF units = <<>> THEN "Pence" ELSE units[2]
           IN  /\ Returned
               /\ StartsWith(result.val,
                             number_to_words(price.whole).val \o " " \o major)
               /\ RoundPence(price) > 0 => EndsWith(result.val, " " \o minor)

\* C8 as amended: price_to_words takes the amount alone; a call that
\* supplies unit names fails with TypeError and returns no phrase, and a
\* call with the amount alone always names the units "Pounds" and "Pence".
C8_PoundsAndPenceOnly ==
    Called("price_to_words")
        => /\ units # <<>> => result = Raise("TypeError")
           /\ (units = <<>> /\ Returned)
                => LET head == number_to_words(IntOf(price)).val \o " Pounds"
                   IN  /\ StartsWith(result.val, head)
                       /\ RoundPence(price) > 0
                            => EndsWith(result.val, " Pence")
                       /\ RoundPence(price) <= 0 => result.val = head

C8_Witness ==
    /\ Called("price_to_words") /\ units = <<"Dollars", "Cents">>
    /\ result = Raise("TypeError")

\* C10: get_multiline_input reads up to and including the second line of
\* the first two adjacent empty lines and no further, returns the lines
\* before them joined by newlines (no two adjacent empty lines among them),
\* and does not return when the input holds no such two lines.
C10_StopsAtFirstPair ==
    fn = "get_multiline_input"
        => LET k == FirstPair(stdin)
           IN  /\ pc = "call" => (k = 0 \/ pos <= k) /\ lines = SubSeq(stdin, 1, pos)
               /\ (pc = "done" /\ Returned)
                    => /\ k > 0 /\ pos = k + 1
                       /\ lines = SubSeq(stdin, 1, k - 1)
                       /\ NoAdjacentEmpty(lines)
                       /\ result.val = Join(SubSeq(stdin, 1, k - 1))
               /\ (pc = "done" /\ ~Returned)
                    => k = 0 /\ pos = Len(stdin) /\ result = Raise("EOFError")

C10_Witness ==
    /\ Called("get_multiline_input")
    /\ stdin = <<"a", "", "a", "", "">>
    /\ pos = 5
    /\ result = Ret("a\n\na")

===========================================================================
